---- MODULE Spec2Model ----
(***************************************************************************)
(* A model of the video downloader: the UI event loop of main(), the work  *)
(* queue, the worker thread process_download_queue and the tasks it runs   *)
(* (download_video, process_local_transcription_file), for both scripts    *)
(* of the repository, video_download.py and youtube.py.                    *)
(***************************************************************************)
EXTENDS Integers, Sequences, FiniteSets, TLC

VARIABLES
    program,            \* which script runs: "video_download" or "youtube"
    window,             \* "open" while main's event loop runs, "closed" after window.close()
    queue_list,         \* main: the pending list
    listbox,            \* the values of the "-QUEUE-" Listbox
    progress_bar,       \* the value of the "-PROGRESS-" ProgressBar, a rational <<num, den>>
    log_pane,           \* the "-LOG-" Multiline: who printed its last line, "main" for the
                        \* handler of a user's event, "-MESSAGE-" for a worker's message
    audio,              \* the "-AUDIO-" checkbox
    transcribe,         \* the "-TRANSCRIBE-" checkbox (video_download.py)
    transcribe_disabled,\* whether the "-TRANSCRIBE-" checkbox is disabled
    subtitles,          \* the "-SUBTITLES-" checkbox (youtube.py)
    next_id,            \* identity of the next queue_item dict to be created
    download_queue,     \* the Queue() shared by main and the worker
    unfinished_tasks,   \* download_queue.unfinished_tasks: put() adds one, task_done() takes one
    abort_event,        \* the threading.Event() shared by main and the worker
    events,             \* events posted with write_event_value, not yet read by main
    pc,                 \* where the worker thread is
    item,               \* process_download_queue: the item taken last
    task,               \* the locals of the running task
    abort_scope,        \* history: the tasks, running or waiting in the work queue when
                        \* Abort was first pressed, that have not returned yet
    put_log,            \* history: the identity of every item put on download_queue, in order
    get_log,            \* history: the identity of every item the worker took, in order
    trace,              \* history of the task taken last: what it posted and called
    pure,               \* the call under check of a pure function, and its result
    session             \* main from its start to its return: where it is, config.json,
                        \* the config loaded and the temp directory

vars == <<program, window, queue_list, listbox, progress_bar, log_pane, audio,
          transcribe, transcribe_disabled, subtitles, next_id, download_queue,
          unfinished_tasks, abort_event, events, pc, item, task, abort_scope, put_log, get_log, trace, pure, session>>

uiVars == <<window, queue_list, listbox, progress_bar, log_pane, audio,
            transcribe, transcribe_disabled, subtitles, next_id>>

workerVars == <<pc, item, task, get_log, trace>>

----------------------------------------------------------------------------
(* Bounds of the model. *)

\* queue_item dicts created in one session
MaxItems == 2
\* events waiting in the window's thread queue before the worker posts again
MaxEvents == 1
\* length of the file names given to sanitize_filename
MaxLen == 3
\* byte counters reported to progress_hook
MaxBytes == 2

----------------------------------------------------------------------------
(* Inputs. *)

\* what the user may have typed in "-URL-"; "" is the empty input
Urls == {"", "https://v/1"}

\* what the user may have typed in "-FILENAME-", as a sequence of characters
Filenames == {<<"a", ":", "b">>}

\* A file path is its directory, its stem (the parts concatenated so far) and
\* its extension: "dir/clip.wav" is [dir |-> "dir", stem |-> <<"clip">>, ext |-> ".wav"].
Path(dir, stem, ext) == [dir |-> dir, stem |-> stem, ext |-> ext]

\* the empty string as a path (a ";" at the end of popup_get_file's answer)
EmptyPath == Path("", <<>>, "")

\* the files popup_get_file may name
LocalFiles == {Path("", <<"talk">>, ".MP3"), Path("dir", <<"clip">>, ".wav")}

\* popup_get_file's answer split at ";": a list of files, some parts maybe empty
FileLists == {<<f>> : f \in LocalFiles} \cup {<<f, EmptyPath>> : f \in LocalFiles}
             \cup {<<f, g>> : f \in LocalFiles, g \in LocalFiles} \cup {<<EmptyPath>>}

\* Python's None as a queue item: the worker's stop signal
None == [none |-> TRUE]

IsNone(x) == "none" \in DOMAIN x

\* a rational number num/den, den > 0
Rat(num, den) == <<num, den>>

RatLeq(a, b) == a[1] * b[2] <= b[1] * a[2]

----------------------------------------------------------------------------
(* Events posted by the worker with window.write_event_value(key, value).  *)
(* text carries the value of a "-MESSAGE-", value that of a "-PROGRESS-".  *)

Event(key, text, value) == [key |-> key, text |-> text, value |-> value]

Message(text) == Event("-MESSAGE-", text, Rat(0, 1))

Progress(value) == Event("-PROGRESS-", "", value)

DownloadComplete == Event("-DOWNLOAD-COMPLETE-", "", Rat(1, 1))

\* the model's cap on the events waiting to be read by main
CanPost == window = "open" => Len(events) < MaxEvents

----------------------------------------------------------------------------
(* main(): the UI thread. *)

\* the text a queue item shows in the "-QUEUE-" listbox (video_download.py
\* line 410: item.get('url', f"Transcribe: {os.path.basename(...)}"))
ListboxEntry(it) ==
    IF "url" \in DOMAIN it
    THEN [prefix |-> "", url |-> it.url, base |-> <<>>, ext |-> ""]
    ELSE [prefix |-> "Transcribe: ", url |-> "",
          base |-> it.local_file.stem, ext |-> it.local_file.ext]

ListboxValues(list) == [i \in 1..Len(list) |-> ListboxEntry(list[i])]

\* the queue_item dict built from the form (both scripts)
QueueItem(url, filename) ==
    IF program = "video_download"
    THEN [id |-> next_id, url |-> url, output_path |-> ".", resolution |-> "720",
          audio_only |-> audio, filename |-> filename, transcribe |-> transcribe,
          model_choice |-> "turbo"]
    ELSE [id |-> next_id, url |-> url, output_path |-> ".", resolution |-> "720",
          audio_only |-> audio, filename |-> filename, subtitles |-> subtitles]

\* the queue_item dict of a local file
LocalItem(id, file_path) == [id |-> id, local_file |-> file_path, model_choice |-> "turbo"]

formVars == <<audio, transcribe, transcribe_disabled, subtitles>>

sharedUnchangedByUi == <<program, events, pc, item, task, get_log, trace, pure, session>>

abortVars == <<abort_event, abort_scope>>

\* the number of tasks the worker is in: 1 between get() and the task's return
Running == IF pc \in {"get", "stopped", "crashed"} THEN 0 ELSE 1

\* a way out of the loop that puts no stop signal on the queue
Exit_NoSentinel ==
    /\ window = "open"
    /\ UNCHANGED <<download_queue, unfinished_tasks>>
    /\ window' = "closed"
    /\ queue_list' = <<>>
    /\ listbox' = <<>>
    /\ progress_bar' = Rat(0, 1)
    /\ log_pane' = ""
    /\ audio' = FALSE
    /\ transcribe' = FALSE
    /\ transcribe_disabled' = TRUE
    /\ subtitles' = FALSE
    /\ events' = <<>>
    /\ UNCHANGED <<program, next_id, abortVars, pc, item, task, put_log, get_log,
                   trace, pure, session>>

\* event == sg.WINDOW_CLOSED or event == "Exit": the stop signal, the break, and
\* the code after the loop. window.close() ends the widgets and the events not
\* yet read, and main's return ends queue_list.
Exit ==
    /\ window = "open"
    /\ download_queue' = Append(download_queue, None)
    /\ unfinished_tasks' = unfinished_tasks + 1
    /\ window' = "closed"
    /\ queue_list' = <<>>
    /\ listbox' = <<>>
    /\ progress_bar' = Rat(0, 1)
    /\ log_pane' = ""
    /\ audio' = FALSE
    /\ transcribe' = FALSE
    /\ transcribe_disabled' = TRUE
    /\ subtitles' = FALSE
    /\ events' = <<>>
    /\ UNCHANGED <<program, next_id, abortVars, pc, item, task, put_log, get_log,
                   trace, pure, session>>

\* a handler that appends the item and leaves the listbox as it is
AddQueue_NoRefresh(url, filename) ==
    /\ window = "open"
    /\ next_id <= MaxItems
    /\ IF url # ""
       THEN /\ queue_list' = Append(queue_list, QueueItem(url, filename))
            /\ log_pane' = "main"
            /\ next_id' = next_id + 1
            /\ UNCHANGED listbox
       ELSE UNCHANGED <<queue_list, listbox, log_pane, next_id>>
    /\ UNCHANGED <<window, progress_bar, formVars, download_queue, unfinished_tasks, abortVars,
                   put_log, sharedUnchangedByUi>>

\* event == "-ADD-QUEUE-"
AddQueue(url, filename) ==
    /\ window = "open"
    /\ next_id <= MaxItems
    /\ IF url # ""
       THEN /\ queue_list' = Append(queue_list, QueueItem(url, filename))
            /\ listbox' = ListboxValues(queue_list')
            /\ log_pane' = "main"
            /\ next_id' = next_id + 1
       ELSE UNCHANGED <<queue_list, listbox, log_pane, next_id>>
    /\ UNCHANGED <<window, progress_bar, formVars, download_queue, unfinished_tasks, abortVars,
                   put_log, sharedUnchangedByUi>>

\* the items the "-ADD-LOCAL-" loop appends for the files chosen
RECURSIVE LocalItems(_, _)
LocalItems(files, id) ==
    IF files = <<>> THEN <<>>
    ELSE IF Head(files) # EmptyPath
         THEN <<LocalItem(id, Head(files))>> \o LocalItems(Tail(files), id + 1)
         ELSE LocalItems(Tail(files), id)

\* event == "-ADD-LOCAL-" (video_download.py only); files = <<>> is a cancelled dialog
AddLocal(files) ==
    /\ window = "open"
    /\ program = "video_download"
    /\ LET new == LocalItems(files, next_id) IN
       /\ next_id + Len(new) <= MaxItems + 1
       /\ IF new # <<>>
          THEN /\ queue_list' = queue_list \o new
               /\ listbox' = ListboxValues(queue_list')
               /\ log_pane' = "main"
               /\ next_id' = next_id + Len(new)
          ELSE UNCHANGED <<queue_list, listbox, log_pane, next_id>>
    /\ UNCHANGED <<window, progress_bar, formVars, download_queue, unfinished_tasks, abortVars,
                   put_log, sharedUnchangedByUi>>

\* a handler that empties queue_list and leaves the listbox as it is
ClearQueue_KeepListbox ==
    /\ window = "open"
    /\ queue_list' = <<>>
    /\ log_pane' = "main"
    /\ UNCHANGED <<window, listbox, progress_bar, formVars, next_id, download_queue,
                   unfinished_tasks, abortVars, put_log, sharedUnchangedByUi>>

\* a handler that takes "the queue" to be the work queue as well and empties it
ClearQueue_DrainsWorkQueue ==
    /\ window = "open"
    /\ queue_list' = <<>>
    /\ listbox' = <<>>
    /\ log_pane' = "main"
    /\ download_queue' = <<>>
    /\ unfinished_tasks' = unfinished_tasks - Len(download_queue)
    /\ UNCHANGED <<window, progress_bar, formVars, next_id,
                   abortVars, put_log, sharedUnchangedByUi>>

\* event == "-CLEAR-QUEUE-"
ClearQueue ==
    /\ window = "open"
    /\ queue_list' = <<>>
    /\ listbox' = <<>>
    /\ log_pane' = "main"
    /\ UNCHANGED <<window, progress_bar, formVars, next_id, download_queue, unfinished_tasks,
                   abortVars, put_log, sharedUnchangedByUi>>

\* a handler that starts afresh: it clears the abort flag before it puts items
StartDownloads_ClearsAbort(url, filename) ==
    /\ window = "open"
    /\ abort_event' = FALSE
    /\ abort_scope' = 0
    /\ IF queue_list # <<>>
       THEN /\ download_queue' = download_queue \o queue_list
            /\ unfinished_tasks' = unfinished_tasks + Len(queue_list)
            /\ put_log' = put_log \o [i \in 1..Len(queue_list) |-> queue_list[i].id]
            /\ log_pane' = "main"
            /\ queue_list' = <<>>
            /\ listbox' = <<>>
            /\ UNCHANGED next_id
       ELSE IF url # ""
            THEN /\ next_id <= MaxItems
                 /\ download_queue' = Append(download_queue, QueueItem(url, filename))
                 /\ unfinished_tasks' = unfinished_tasks + 1
                 /\ put_log' = Append(put_log, next_id)
                 /\ log_pane' = "main"
                 /\ next_id' = next_id + 1
                 /\ UNCHANGED <<queue_list, listbox>>
            ELSE UNCHANGED <<download_queue, unfinished_tasks, put_log, log_pane,
                             next_id, queue_list, listbox>>
    /\ UNCHANGED <<window, progress_bar, formVars, sharedUnchangedByUi>>

\* a handler that puts the pending items and forgets to empty the pending list
StartDownloads_KeepPending(url, filename) ==
    /\ window = "open"
    /\ IF queue_list # <<>>
       THEN /\ download_queue' = download_queue \o queue_list
            /\ unfinished_tasks' = unfinished_tasks + Len(queue_list)
            /\ put_log' = put_log \o [i \in 1..Len(queue_list) |-> queue_list[i].id]
            /\ log_pane' = "main"
            /\ listbox' = <<>>
            /\ UNCHANGED <<next_id, queue_list>>
       ELSE IF url # ""
            THEN /\ next_id <= MaxItems
                 /\ download_queue' = Append(download_queue, QueueItem(url, filename))
                 /\ unfinished_tasks' = unfinished_tasks + 1
                 /\ put_log' = Append(put_log, next_id)
                 /\ log_pane' = "main"
                 /\ next_id' = next_id + 1
                 /\ UNCHANGED <<queue_list, listbox>>
            ELSE UNCHANGED <<download_queue, unfinished_tasks, put_log, log_pane,
                             next_id, queue_list, listbox>>
    /\ UNCHANGED <<window, progress_bar, formVars, abortVars, sharedUnchangedByUi>>

\* event == "-START-DOWNLOADS-"; url and filename are read only when
\* queue_list is empty
StartDownloads(url, filename) ==
    /\ window = "open"
    /\ IF queue_list # <<>>
       THEN /\ download_queue' = download_queue \o queue_list
            /\ unfinished_tasks' = unfinished_tasks + Len(queue_list)
            /\ put_log' = put_log \o [i \in 1..Len(queue_list) |-> queue_list[i].id]
            /\ log_pane' = "main"
            /\ queue_list' = <<>>
            /\ listbox' = <<>>
            /\ UNCHANGED next_id
       ELSE IF url # ""
            THEN /\ next_id <= MaxItems
                 /\ download_queue' = Append(download_queue, QueueItem(url, filename))
                 /\ unfinished_tasks' = unfinished_tasks + 1
                 /\ put_log' = Append(put_log, next_id)
                 /\ log_pane' = "main"
                 /\ next_id' = next_id + 1
                 /\ UNCHANGED <<queue_list, listbox>>
            ELSE UNCHANGED <<download_queue, unfinished_tasks, put_log, log_pane,
                             next_id, queue_list, listbox>>
    /\ UNCHANGED <<window, progress_bar, formVars, abortVars, sharedUnchangedByUi>>

\* event == "-ABORT-"
Abort ==
    /\ window = "open"
    /\ abort_event' = TRUE
    /\ abort_scope' = IF abort_event THEN abort_scope ELSE Len(put_log) - Len(get_log) + Running
    /\ log_pane' = "main"
    /\ UNCHANGED <<window, queue_list, listbox, progress_bar, formVars, next_id,
                   download_queue, unfinished_tasks, put_log, sharedUnchangedByUi>>

\* event == '-PROGRESS-', read from the worker's events
ProgressEvent ==
    /\ window = "open"
    /\ events # <<>> /\ Head(events).key = "-PROGRESS-"
    /\ progress_bar' = Head(events).value
    /\ events' = Tail(events)
    /\ UNCHANGED <<program, window, queue_list, listbox, log_pane, formVars, next_id,
                   download_queue, unfinished_tasks, abortVars, pc, item, task,
                   put_log, get_log, trace, pure, session>>

\* event == '-MESSAGE-'
MessageEvent ==
    /\ window = "open"
    /\ events # <<>> /\ Head(events).key = "-MESSAGE-"
    /\ log_pane' = Head(events).key
    /\ events' = Tail(events)
    /\ UNCHANGED <<program, window, queue_list, listbox, progress_bar, formVars,
                   next_id, download_queue, unfinished_tasks, abortVars, pc, item,
                   task, put_log, get_log, trace, pure, session>>

\* event == '-DOWNLOAD-COMPLETE-'
DownloadCompleteEvent ==
    /\ window = "open"
    /\ events # <<>> /\ Head(events).key = "-DOWNLOAD-COMPLETE-"
    /\ progress_bar' = Rat(0, 1)
    /\ events' = Tail(events)
    /\ UNCHANGED <<program, window, queue_list, listbox, log_pane, formVars, next_id,
                   download_queue, unfinished_tasks, abortVars, pc, item, task,
                   put_log, get_log, trace, pure, session>>

\* a handler that disables the Transcribe checkbox and leaves it ticked
AudioEvent_NoReset ==
    /\ window = "open"
    /\ audio' = ~audio
    /\ IF program = "video_download"
       THEN /\ transcribe_disabled' = ~audio'
            /\ UNCHANGED transcribe
       ELSE UNCHANGED <<transcribe, transcribe_disabled>>
    /\ UNCHANGED <<window, queue_list, listbox, progress_bar, log_pane, subtitles,
                   next_id, download_queue, unfinished_tasks, abortVars, put_log, sharedUnchangedByUi>>

\* the user ticks or unticks "Audio Only"; with enable_events the click is an
\* event == "-AUDIO-", which only video_download.py handles
AudioEvent ==
    /\ window = "open"
    /\ audio' = ~audio
    /\ IF program = "video_download"
       THEN /\ transcribe_disabled' = ~audio'
            /\ transcribe' = IF ~audio' THEN FALSE ELSE transcribe
       ELSE UNCHANGED <<transcribe, transcribe_disabled>>
    /\ UNCHANGED <<window, queue_list, listbox, progress_bar, log_pane, subtitles,
                   next_id, download_queue, unfinished_tasks, abortVars, put_log, sharedUnchangedByUi>>

\* the user ticks or unticks "Transcribe (audio only)"; a disabled checkbox
\* takes no click, and the click is no event
TranscribeClick ==
    /\ window = "open"
    /\ program = "video_download"
    /\ ~transcribe_disabled
    /\ transcribe' = ~transcribe
    /\ UNCHANGED <<window, queue_list, listbox, progress_bar, log_pane, audio,
                   transcribe_disabled, subtitles, next_id, download_queue, unfinished_tasks,
                   abortVars, put_log, sharedUnchangedByUi>>

\* the user ticks or unticks "Download Subtitles" (youtube.py)
SubtitlesClick ==
    /\ window = "open"
    /\ program = "youtube"
    /\ subtitles' = ~subtitles
    /\ UNCHANGED <<window, queue_list, listbox, progress_bar, log_pane, audio,
                   transcribe, transcribe_disabled, next_id, download_queue, unfinished_tasks,
                   abortVars, put_log, sharedUnchangedByUi>>

----------------------------------------------------------------------------
(* Pure helpers of both scripts. *)

\* the class of a pattern whose backslash is not doubled, [\/*?:"<>|]
PatternClass_NoBackslash == {"/", "*", "?", ":", "\"", "<", ">", "|"}

\* the characters of the class [\\/*?:"<>|] of sanitize_filename's pattern
PatternClass == {"\\", "/", "*", "?", ":", "\"", "<", ">", "|"}

\* re.sub(r'[\\/*?:"<>|]', "", filename): scan from the left, replace every
\* match of the class by the empty string, copy everything else
RECURSIVE sanitize_filename(_)
sanitize_filename(filename) ==
    IF filename = <<>> THEN <<>>
    ELSE IF Head(filename) \in PatternClass
         THEN sanitize_filename(Tail(filename))
         ELSE <<Head(filename)>> \o sanitize_filename(Tail(filename))

\* a key the dict d passed to progress_hook does not hold, or holds as None
NoBytes == -1

\* Python's truth value of d.get(key) for a byte counter
Truthy(n) == n # NoBytes /\ n # 0

RECURSIVE Gcd(_, _)
Gcd(a, b) == IF b = 0 THEN a ELSE Gcd(b, a % b)

\* downloaded_bytes / total_bytes * 100, kept exact
Percent(downloaded, total) ==
    LET g == Gcd(downloaded * 100, total) IN
    Rat((downloaded * 100) \div g, total \div g)

\* a hook that takes a record without a total for a finished download
progress_hook_NoTotalCheck(d) ==
    IF d.status = "downloading"
    THEN LET total_bytes == IF Truthy(d.total_bytes) THEN d.total_bytes
                            ELSE d.total_bytes_estimate
             downloaded_bytes == IF d.downloaded_bytes = NoBytes THEN 0
                                 ELSE d.downloaded_bytes
         IN IF Truthy(total_bytes)
            THEN <<Progress(Percent(downloaded_bytes, total_bytes))>>
            ELSE <<Progress(Rat(100, 1))>>
    ELSE IF d.status = "finished"
         THEN <<Progress(Rat(100, 1))>>
         ELSE <<>>

\* progress_hook(d, window): the events it posts, in order
progress_hook(d) ==
    IF d.status = "downloading"
    THEN LET total_bytes == IF Truthy(d.total_bytes) THEN d.total_bytes
                            ELSE d.total_bytes_estimate
             downloaded_bytes == IF d.downloaded_bytes = NoBytes THEN 0
                                 ELSE d.downloaded_bytes
         IN IF Truthy(total_bytes)
            THEN <<Progress(Percent(downloaded_bytes, total_bytes))>>
            ELSE <<>>
    ELSE IF d.status = "finished"
         THEN <<Progress(Rat(100, 1))>>
         ELSE <<>>

\* the status records the download library may pass to progress_hook
HookRecords ==
    [status : {"downloading", "finished", "error"},
     total_bytes : {NoBytes} \cup 0..MaxBytes,
     total_bytes_estimate : {NoBytes} \cup 0..MaxBytes,
     downloaded_bytes : {NoBytes} \cup 0..MaxBytes]

\* the status records the download library passes to the hook in the program's
\* runs: a download whose total is known or not, with all bytes received
ProgramHookRecords ==
    {d \in HookRecords : /\ d.total_bytes \in {NoBytes, MaxBytes}
                         /\ d.total_bytes_estimate = NoBytes
                         /\ d.downloaded_bytes = MaxBytes}

----------------------------------------------------------------------------
(* The worker thread: process_download_queue and the tasks it calls. *)

\* the locals of a task
Task(args, file_path) ==
    [args |-> args, file_path |-> file_path, whisper_model |-> FALSE, ydl_opts |-> <<>>]

NoTask == Task(<<>>, EmptyPath)

\* the message texts the history keeps
Notable == {"Download aborted.", "Download complete!"}

\* nothing posted, nothing called
NoTrace == [completes |-> 0, last |-> "", texts |-> {}, calls |-> <<>>,
            after_abort |-> FALSE]

\* the history of a task at its start; it notes whether the item was put and
\* taken after Abort was pressed
StartTrace == [NoTrace EXCEPT !.after_abort = abort_event /\ abort_scope = 0]

\* an external call a step starts, as the history records it
Call(fn, opts) == [fn |-> fn, text |-> <<>>]

\* an exception an external call raises, as the history records it
Raise(e) == [fn |-> e.type, text |-> e.text]

Exception == [type |-> "Exception", text |-> <<>>]

\* the calls and exceptions the history keeps
Recorded == {"download", "retry download", "transcribe", "write", "DownloadError"}

IsRecorded(call) == call.fn \in Recorded

\* how often the history of the task holds a call of fn
Calls(fn) == Cardinality({i \in 1..Len(trace.calls) : trace.calls[i].fn = fn})

\* the keyword arguments process_download_queue passes to download_video
DownloadVideoArgs(it) ==
    IF program = "video_download"
    THEN [id |-> it.id, url |-> it.url, output_path |-> it.output_path,
          resolution |-> it.resolution, audio_only |-> it.audio_only,
          filename |-> it.filename, transcribe |-> it.transcribe,
          model_choice |-> it.model_choice]
    ELSE [id |-> it.id, url |-> it.url, output_path |-> it.output_path,
          resolution |-> it.resolution, audio_only |-> it.audio_only,
          filename |-> it.filename, subtitles |-> it.subtitles]

\* what process_local_transcription_file reads from its item
LocalArgs(it) == [id |-> it.id, local_file |-> it.local_file, model_choice |-> it.model_choice]

\* a queue handing out the item put last (queue.LifoQueue)
Get_Lifo(queue) ==
    [item |-> queue[Len(queue)], queue |-> SubSeq(queue, 1, Len(queue) - 1)]

\* queue.Queue.get() on a non-empty queue: the item it returns and the queue it leaves
Get(queue) == [item |-> Head(queue), queue |-> Tail(queue)]

\* a worker that takes the next item without waiting for its task to return
\* (a thread per item)
WorkerGet_ThreadPerItem ==
    /\ pc \notin {"stopped", "crashed"}
    /\ download_queue # <<>>
    /\ item' = Get(download_queue).item
    /\ download_queue' = Get(download_queue).queue
    /\ IF IsNone(item')
       THEN /\ pc' = "stopped"
            /\ UNCHANGED <<task, get_log, trace>>
       ELSE IF "local_file" \in DOMAIN item'
            THEN /\ pc' = "lt_begin"
                 /\ task' = Task(LocalArgs(item'), item'.local_file)
                 /\ get_log' = Append(get_log, item'.id)
                 /\ trace' = StartTrace
            ELSE /\ pc' = IF program = "video_download" THEN "dv_begin" ELSE "yt_begin"
                 /\ task' = Task(DownloadVideoArgs(item'), EmptyPath)
                 /\ get_log' = Append(get_log, item'.id)
                 /\ trace' = StartTrace
    /\ UNCHANGED <<program, uiVars, abortVars, events, unfinished_tasks, put_log, pure, session>>

\* item = download_queue.get(), the test for None and the call of the task
WorkerGet ==
    /\ pc = "get"
    /\ download_queue # <<>>
    /\ item' = Get(download_queue).item
    /\ download_queue' = Get(download_queue).queue
    /\ IF IsNone(item')
       THEN /\ pc' = "stopped"
            /\ UNCHANGED <<task, get_log, trace>>
       ELSE IF "local_file" \in DOMAIN item'
            THEN /\ pc' = "lt_begin"
                 /\ task' = Task(LocalArgs(item'), item'.local_file)
                 /\ get_log' = Append(get_log, item'.id)
                 /\ trace' = StartTrace
            ELSE /\ pc' = IF program = "video_download" THEN "dv_begin" ELSE "yt_begin"
                 /\ task' = Task(DownloadVideoArgs(item'), EmptyPath)
                 /\ get_log' = Append(get_log, item'.id)
                 /\ trace' = StartTrace
    /\ UNCHANGED <<program, uiVars, abortVars, events, unfinished_tasks, put_log, pure, session>>

\* a task that sets the progress bar itself, as well as posting the event
TaskStep_DirectUpdate(newPc, evs, calls, newTask) ==
    /\ evs # <<>> => CanPost
    /\ pc' = newPc
    /\ task' = IF newPc \in {"get", "crashed"} THEN NoTask ELSE newTask
    /\ events' = IF window = "open" THEN events \o evs ELSE events
    /\ trace' = [completes |-> trace.completes
                                + Cardinality({i \in 1..Len(evs) :
                                                 evs[i].key = "-DOWNLOAD-COMPLETE-"}),
                 last |-> IF evs = <<>> THEN trace.last ELSE evs[Len(evs)].key,
                 texts |-> trace.texts \cup ({evs[i].text : i \in 1..Len(evs)} \cap Notable),
                 calls |-> trace.calls \o SelectSeq(calls, IsRecorded),
                 after_abort |-> trace.after_abort]
    /\ unfinished_tasks' = IF newPc = "get" THEN unfinished_tasks - 1 ELSE unfinished_tasks
    /\ abort_scope' = IF newPc = "get" /\ abort_scope > 0 THEN abort_scope - 1 ELSE abort_scope
    /\ progress_bar' = IF evs # <<>> /\ window = "open" THEN evs[Len(evs)].value
                       ELSE progress_bar
    /\ UNCHANGED <<program, window, queue_list, listbox, log_pane, formVars, next_id,
                   download_queue, abort_event, item, put_log, get_log, pure, session>>

\* One step of a task: it posts evs, makes the external calls `calls`, and goes
\* on at newPc with the locals newTask. Reaching "get" is the task's return (its
\* locals are gone) and download_queue.task_done().
TaskStep(newPc, evs, calls, newTask) ==
    /\ evs # <<>> => CanPost
    /\ pc' = newPc
    /\ task' = IF newPc \in {"get", "crashed"} THEN NoTask ELSE newTask
    /\ events' = IF window = "open" THEN events \o evs ELSE events
    /\ trace' = [completes |-> trace.completes
                                + Cardinality({i \in 1..Len(evs) :
                                                 evs[i].key = "-DOWNLOAD-COMPLETE-"}),
                 last |-> IF evs = <<>> THEN trace.last ELSE evs[Len(evs)].key,
                 texts |-> trace.texts \cup ({evs[i].text : i \in 1..Len(evs)} \cap Notable),
                 calls |-> trace.calls \o SelectSeq(calls, IsRecorded),
                 after_abort |-> trace.after_abort]
    /\ unfinished_tasks' = IF newPc = "get" THEN unfinished_tasks - 1 ELSE unfinished_tasks
    /\ abort_scope' = IF newPc = "get" /\ abort_scope > 0 THEN abort_scope - 1 ELSE abort_scope
    /\ UNCHANGED <<program, uiVars, download_queue, abort_event, item, put_log,
                   get_log, pure, session>>

----------------------------------------------------------------------------
(* video_download.py: download_video. *)

\* ydl_opts as download_video builds it (lines 120-153)
DvOptions(args) ==
    LET format_option == IF args.audio_only THEN "bestaudio/best"
                         ELSE "bestvideo[height<=resolution]+bestaudio/best"
        ext == IF args.audio_only THEN ".mp3" ELSE ".mp4"
        outtmpl == IF args.filename # <<>>
                   THEN Path(args.output_path, sanitize_filename(args.filename), ext)
                   ELSE Path(args.output_path, <<"%(title)s">>, "%(ext)s")
    IN IF args.audio_only
       THEN [format |-> format_option, outtmpl |-> outtmpl,
             progress_hooks |-> "progress_hook", noplaylist |-> "True",
             postprocessors |-> "FFmpegExtractAudio mp3 192"]
       ELSE [format |-> format_option, outtmpl |-> outtmpl,
             progress_hooks |-> "progress_hook", noplaylist |-> "True",
             merge_output_format |-> "mp4", postprocessor_args |-> "-c:a aac -b:a 192k",
             prefer_ffmpeg |-> "True"]

\* os.path.splitext(path)[0] + suffix + ext
WithSuffix(path, suffix, ext) == Path(path.dir, Append(path.stem, suffix), ext)

\* ydl.prepare_filename(info), with the extension forced to .mp3 for audio
PreparedFilename(args, opts) ==
    LET name == IF args.filename # <<>> THEN opts.outtmpl
                ELSE Path(args.output_path, <<"title">>, ".mp4")
    IN IF args.audio_only THEN Path(name.dir, name.stem, ".mp3") ELSE name

\* a download_video whose failure path has no finally clause
DvExcept_NoFinally ==
    TaskStep("get", <<Message("An error occurred")>>, <<Raise(Exception)>>, task)

\* the except and finally clauses of download_video, then its return
DvExcept ==
    TaskStep("get", <<Message("An error occurred"), DownloadComplete>>,
             <<Raise(Exception)>>, task)

\* entering the with block: YoutubeDL(ydl_opts) and the call of extract_info
DvCallExtractInfo(evs, whisper_model) ==
    LET opts == DvOptions(task.args) IN
    TaskStep("dv_extract_info", evs, <<Call("extract_info", opts)>>,
             [task EXCEPT !.whisper_model = whisper_model, !.ydl_opts = opts])

\* lines 104-117: os.makedirs, then the start of the Whisper model's load
DvBegin(makedirs_ok) ==
    /\ pc = "dv_begin"
    /\ IF ~makedirs_ok
       THEN DvExcept
       ELSE IF task.args.audio_only /\ task.args.transcribe
            THEN TaskStep("dv_load_model", <<Message("Loading Whisper model")>>,
                          <<Call("load_model", <<>>)>>, task)
            ELSE DvCallExtractInfo(<<>>, FALSE)

\* lines 113-117: whisper.load_model returns or raises
DvLoadModel(ok) ==
    /\ pc = "dv_load_model"
    /\ IF ok
       THEN DvCallExtractInfo(<<Message("Whisper model loaded successfully")>>, TRUE)
       ELSE TaskStep("get", <<Message("Error loading Whisper model"), DownloadComplete>>,
                     <<Raise(Exception)>>, task)

\* the download library calls the progress hook, any number of times, while
\* extract_info runs
DvProgressHook(d) ==
    /\ pc = "dv_extract_info"
    /\ TaskStep(pc, progress_hook(d), <<>>, task)

\* a download_video that does not read abort_event after the download
DvExtractInfoReturns_NoAbortCheck ==
    /\ pc = "dv_extract_info"
    /\ LET downloaded_file == PreparedFilename(task.args, task.ydl_opts)
           downloading == Message("Downloading")
       IN IF /\ task.args.audio_only /\ task.args.transcribe
             /\ task.whisper_model /\ downloaded_file # EmptyPath
          THEN TaskStep("dv_transcribe",
                        <<downloading, Message("Starting transcription...")>>,
                        <<Call("transcribe", <<>>)>>,
                        [task EXCEPT !.file_path = downloaded_file])
          ELSE TaskStep("get", <<downloading, Message("Download complete!"),
                                 Progress(Rat(100, 1)), DownloadComplete>>,
                        <<>>, [task EXCEPT !.file_path = downloaded_file])

\* lines 157-181: extract_info returns, the abort check, the start of the
\* transcription or the end of the task
DvExtractInfoReturns ==
    /\ pc = "dv_extract_info"
    /\ LET downloaded_file == PreparedFilename(task.args, task.ydl_opts)
           downloading == Message("Downloading")
       IN IF abort_event
          THEN TaskStep("get", <<downloading, Message("Download aborted."), DownloadComplete>>,
                        <<>>, [task EXCEPT !.file_path = downloaded_file])
          ELSE IF /\ task.args.audio_only /\ task.args.transcribe
                  /\ task.whisper_model /\ downloaded_file # EmptyPath
               THEN TaskStep("dv_transcribe",
                             <<downloading, Message("Starting transcription...")>>,
                             <<Call("transcribe", <<>>)>>,
                             [task EXCEPT !.file_path = downloaded_file])
               ELSE TaskStep("get", <<downloading, Message("Download complete!"),
                                      Progress(Rat(100, 1)), DownloadComplete>>,
                             <<>>, [task EXCEPT !.file_path = downloaded_file])

\* extract_info raises
DvExtractInfoRaises ==
    /\ pc = "dv_extract_info"
    /\ DvExcept

\* lines 171-181: whisper_model.transcribe and the writing of the transcript,
\* or the exception either raises; then the end of the task
DvTranscribe(ok) ==
    /\ pc = "dv_transcribe"
    /\ LET transcript_path == WithSuffix(task.file_path, "_transcript", ".txt")
           done == <<Message("Download complete!"), Progress(Rat(100, 1)), DownloadComplete>>
       IN IF ok
          THEN TaskStep("get", <<Message("Transcription saved")>> \o done,
                        <<Call("write", transcript_path)>>, task)
          ELSE TaskStep("get", <<Message("Transcription error")>> \o done,
                        <<Raise(Exception)>>, task)

----------------------------------------------------------------------------
(* video_download.py: process_local_transcription_file. *)

\* file_path.lower()
Lower(ext) == IF ext = ".MP3" THEN ".mp3" ELSE ext

\* lines 329-331: the try block that loads the model, up to the call
LtCallLoadModel(evs, file_path) ==
    TaskStep("lt_load_model",
             evs \o <<Message("Loading Whisper model"), Progress(Rat(20, 1))>>,
             <<Call("load_model", <<>>)>>, [task EXCEPT !.file_path = file_path])

\* lines 316-322: the first messages and the test for an .mp3 file
LtBegin ==
    /\ pc = "lt_begin"
    /\ LET first == <<Message("Processing transcription"), Progress(Rat(0, 1))>> IN
       IF Lower(task.file_path.ext) # ".mp3"
       THEN TaskStep("lt_convert", first \o <<Message("Converting to MP3")>>,
                     <<Call("convert_to_mp3", <<>>)>>, task)
       ELSE LtCallLoadModel(first, task.file_path)

\* lines 323-327: convert_to_mp3 returns True or False (it catches what ffmpeg raises)
LtConvert(converted) ==
    /\ pc = "lt_convert"
    /\ IF ~converted
       THEN TaskStep("get", <<Message("Conversion failed"), Progress(Rat(0, 1))>>, <<>>, task)
       ELSE LtCallLoadModel(<<>>, WithSuffix(task.file_path, "_converted", ".mp3"))

\* lines 331-340: whisper.load_model returns or raises
LtLoadModel(ok) ==
    /\ pc = "lt_load_model"
    /\ IF ok
       THEN TaskStep("lt_transcribe",
                     <<Message("Whisper model loaded successfully"),
                       Message("Starting transcription"), Progress(Rat(50, 1))>>,
                     <<Call("transcribe", <<>>)>>, [task EXCEPT !.whisper_model = TRUE])
       ELSE TaskStep("get", <<Message("Error loading model"), Progress(Rat(0, 1))>>,
                     <<Raise(Exception)>>, task)

\* lines 340-348: whisper_model.transcribe and the writing of the transcript,
\* or the exception either raises
LtTranscribe(ok) ==
    /\ pc = "lt_transcribe"
    /\ LET transcript_path == WithSuffix(task.file_path, "_transcript", ".txt") IN
       IF ok
       THEN TaskStep("get", <<Message("Transcription saved"), Progress(Rat(100, 1))>>,
                     <<Call("write", transcript_path)>>, task)
       ELSE TaskStep("get", <<Message("Transcription error"), Progress(Rat(0, 1))>>,
                     <<Raise(Exception)>>, task)

----------------------------------------------------------------------------
(* youtube.py: download_video. *)

\* str(e) of the errors the download library may raise, as the pieces of the text
ErrorTexts == {<<"Unable to download video ", "subtitle", "s">>, <<"HTTP Error 403">>}

\* 'subtitle' in str(e)
SubtitleIn(text) == \E i \in 1..Len(text) : text[i] = "subtitle"

\* how a call of the download library ends: it returns, raises DownloadError
\* or raises another exception
Outcomes ==
    {[type |-> "ok", text |-> <<>>], Exception}
    \cup {[type |-> "DownloadError", text |-> t] : t \in ErrorTexts}

\* ydl_opts as download_video builds it (lines 28-45)
YtOptions(args) ==
    LET format_option == IF args.audio_only THEN "bestaudio/best"
                         ELSE "bestvideo[height<=resolution]+bestaudio/best"
        outtmpl == IF args.filename # <<>>
                   THEN Path(args.output_path, sanitize_filename(args.filename), ".%(ext)s")
                   ELSE Path(args.output_path, <<"%(title)s">>, ".%(ext)s")
        base == [format |-> format_option, outtmpl |-> outtmpl,
                 progress_hooks |-> "progress_hook"]
    IN IF args.subtitles /\ ~args.audio_only
       THEN [writesubtitles |-> "True", subtitleslangs |-> "en",
             subtitlesformat |-> "srt", skip_download |-> "False"] @@ base
       ELSE base

\* a retry that leaves subtitleslangs among the options
PopSubtitles_KeepLangs(opts) ==
    [k \in DOMAIN opts \ {"writesubtitles", "subtitlesformat"} |-> opts[k]]

\* ydl_opts.pop(key, None) for the three subtitle keys (lines 62-64)
PopSubtitles(opts) ==
    [k \in DOMAIN opts \ {"writesubtitles", "subtitleslangs", "subtitlesformat"} |-> opts[k]]

\* except DownloadError as e (lines 58-73), up to the retry's download call
YtExceptDownloadError(e) ==
    IF SubtitleIn(e.text)
    THEN LET opts == PopSubtitles(task.ydl_opts) IN
         TaskStep("yt_retry", <<Message("Subtitles not available")>>,
                  <<Raise(e), Call("retry download", opts)>>,
                  [task EXCEPT !.ydl_opts = opts])
    ELSE TaskStep("get", <<Message("Download error"), DownloadComplete>>, <<Raise(e)>>, task)

\* except Exception as e (lines 74-77), then the finally clause
YtExceptException ==
    TaskStep("get", <<Message("An unexpected error occurred"), DownloadComplete>>,
             <<Raise(Exception)>>, task)

\* lines 24-48: os.makedirs, the options, the call of extract_info(download=False)
YtBegin(makedirs_ok) ==
    /\ pc = "yt_begin"
    /\ IF ~makedirs_ok
       THEN YtExceptException
       ELSE LET opts == YtOptions(task.args) IN
            TaskStep("yt_extract_info", <<>>, <<Call("extract_info", opts)>>,
                     [task EXCEPT !.ydl_opts = opts])

\* lines 48-51: extract_info returns or raises; then the call of ydl.download
YtExtractInfo(outcome) ==
    /\ pc = "yt_extract_info"
    /\ CASE outcome.type = "ok" ->
                TaskStep("yt_download", <<Message("Downloading")>>,
                         <<Call("download", task.ydl_opts)>>, task)
         [] outcome.type = "DownloadError" -> YtExceptDownloadError(outcome)
         [] OTHER -> YtExceptException

\* the download library calls the progress hook, any number of times, while
\* ydl.download runs
YtProgressHook(d) ==
    /\ pc \in {"yt_download", "yt_retry"}
    /\ TaskStep(pc, progress_hook(d), <<>>, task)

\* lines 51-56: ydl.download returns or raises; the abort check
YtDownload(outcome) ==
    /\ pc = "yt_download"
    /\ CASE outcome.type = "ok" ->
                IF abort_event
                THEN TaskStep("get", <<Message("Download aborted."), DownloadComplete>>,
                              <<>>, task)
                ELSE TaskStep("get", <<Message("Download complete!"), Progress(Rat(100, 1)),
                                       DownloadComplete>>, <<>>, task)
         [] outcome.type = "DownloadError" -> YtExceptDownloadError(outcome)
         [] OTHER -> YtExceptException

\* lines 65-69: the retry's ydl.download returns or raises. What it raises is
\* raised inside the except clause: no later except clause catches it, the
\* finally clause runs, and the exception ends process_download_queue.
YtRetry(ok) ==
    /\ pc = "yt_retry"
    /\ IF ok
       THEN IF abort_event
            THEN TaskStep("get", <<Message("Download aborted."), DownloadComplete>>, <<>>, task)
            ELSE TaskStep("get", <<DownloadComplete>>, <<>>, task)
       ELSE TaskStep("crashed", <<DownloadComplete>>, <<Raise(Exception)>>, task)

----------------------------------------------------------------------------
(* video_download.py: the configuration file. *)

\* Python values: a str, None or a bool
PyStr(v) == [py |-> "str", v |-> v]

PyNone == [py |-> "NoneType", v |-> ""]

PyBool(b) == [py |-> "bool", v |-> IF b THEN "True" ELSE "False"]

\* JSON values as config.json's text holds them: "...", null, true, false
JsonString(v) == [json |-> "string", v |-> v]

JsonLiteral(word) == [json |-> word, v |-> ""]

\* json.dump of one value
JsonDumpValue(x) ==
    CASE x.py = "str" -> JsonString(x.v)
      [] x.py = "NoneType" -> JsonLiteral("null")
      [] x.py = "bool" -> JsonLiteral(IF x.v = "True" THEN "true" ELSE "false")

\* json.load of one value
JsonLoadValue(t) ==
    CASE t.json = "string" -> PyStr(t.v)
      [] t.json = "null" -> PyNone
      [] t.json = "true" -> PyBool(TRUE)
      [] t.json = "false" -> PyBool(FALSE)

\* json.dump(config, f) and json.load(f) of a dict
JsonDump(config) == [k \in DOMAIN config |-> JsonDumpValue(config[k])]

JsonLoad(text) == [k \in DOMAIN text |-> JsonLoadValue(text[k])]

DEFAULT_CONFIG ==
    [default_output_path |-> PyStr("downloads"),
     default_resolution |-> PyStr("720"),
     default_model |-> PyStr("turbo"),
     temp_directory |-> PyNone,
     keep_temp_files |-> PyBool(FALSE)]

\* config.json: missing, or an object with its text
NoFile == [exists |-> FALSE, text |-> <<>>]

File(text) == [exists |-> TRUE, text |-> text]

\* save_config(config)
save_config(config) == File(JsonDump(config))

\* a load_config that returns the defaults without writing them
load_config_NoSave(file) ==
    IF file.exists
    THEN [config |-> JsonLoad(file.text), file |-> file]
    ELSE [config |-> DEFAULT_CONFIG, file |-> file]

\* load_config(): the config it returns and the file it leaves
load_config(file) ==
    IF file.exists
    THEN [config |-> JsonLoad(file.text), file |-> file]
    ELSE [config |-> DEFAULT_CONFIG, file |-> save_config(DEFAULT_CONFIG)]

\* what a config.json written by an earlier session may hold for a key: the
\* default or another value
Persisted(k) ==
    {JsonDumpValue(DEFAULT_CONFIG[k]),
     CASE k = "default_output_path" -> JsonString("videos")
       [] k = "default_resolution" -> JsonString("1080")
       [] k = "default_model" -> JsonString("base")
       [] k = "temp_directory" -> JsonString("/tmp/vd")
       [] k = "keep_temp_files" -> JsonLiteral("true")}

\* the config.json files a session may start with: none, or any of the keys
ConfigFiles ==
    {NoFile} \cup
    {File(t) : t \in UNION {{f \in [keys -> UNION {Persisted(k) : k \in keys}] :
                                \A k \in keys : f[k] \in Persisted(k)} :
                            keys \in SUBSET DOMAIN DEFAULT_CONFIG}}

----------------------------------------------------------------------------
(* The pure functions, each applied to an input drawn when the run starts. *)

\* the characters of the file names given to sanitize_filename
Alphabet == {"\\", "/", "*", "?", ":", "\"", "<", ">", "|", "a", "."}

RECURSIVE StringsOfLength(_)
StringsOfLength(n) ==
    IF n = 0 THEN {<<>>}
    ELSE {Append(str, c) : str \in StringsOfLength(n - 1), c \in Alphabet}

Strings == UNION {StringsOfLength(n) : n \in 0..MaxLen}

NoCall == [fn |-> "none"]

\* a call to come: its argument, how often it was made, what it returned, and
\* config.json as the calls so far left it
PureCall(fn, arg, file) == [fn |-> fn, arg |-> arg, calls |-> 0, ret |-> <<>>, file |-> file]

PureCalls ==
    {PureCall("sanitize_filename", str, NoFile) : str \in Strings}
    \cup {PureCall("progress_hook", d, NoFile) : d \in HookRecords}
    \cup {PureCall("load_config", f, f) : f \in ConfigFiles}

programVars == <<program, uiVars, download_queue, unfinished_tasks, abort_event, abort_scope,
                 events, workerVars, put_log, session>>

\* safe_filename = sanitize_filename(filename)
CallSanitizeFilename ==
    /\ pure.fn = "sanitize_filename" /\ pure.calls = 0
    /\ pure' = [pure EXCEPT !.calls = 1, !.ret = sanitize_filename(pure.arg)]
    /\ UNCHANGED programVars

\* the download library calls progress_hook(d, window)
CallProgressHook ==
    /\ pure.fn = "progress_hook" /\ pure.calls = 0
    /\ pure' = [pure EXCEPT !.calls = 1, !.ret = progress_hook(pure.arg)]
    /\ UNCHANGED programVars

\* load_config(), as main and DownloadManager call it one after the other;
\* arg is config.json as the session found it, ret the configs returned so far
CallLoadConfig ==
    /\ pure.fn = "load_config" /\ pure.calls < 2
    /\ LET r == load_config(pure.file) IN
       pure' = [pure EXCEPT !.calls = @ + 1, !.file = r.file, !.ret = Append(@, r.config)]
    /\ UNCHANGED programVars

----------------------------------------------------------------------------
(* video_download.py: main from its start to its return, with the temp     *)
(* directory of DownloadManager. The handlers of the loop are one step here.*)

\* main is not followed
NoSession == [pc |-> "none"]

\* main about to start, with config.json as it finds it
Session(file) ==
    [pc |-> "start", file |-> file, config |-> <<>>, temp_dir |-> "none",
     way_out |-> "", cleanups |-> 0, rmtree |-> "not called"]

\* bool(x) of a Python value
PyTruthy(x) ==
    CASE x.py = "bool" -> x.v = "True"
      [] x.py = "NoneType" -> FALSE
      [] x.py = "str" -> x.v # ""

\* self.config.get('keep_temp_files', False), as cleanup_temp_files tests it
KeepFiles(config) ==
    IF "keep_temp_files" \in DOMAIN config THEN PyTruthy(config["keep_temp_files"]) ELSE FALSE

\* lines 373-388: config = load_config(), the window, DownloadManager(window)
\* with tempfile.mkdtemp() and its own load_config(), the queue and the thread
Startup ==
    /\ session.pc = "start"
    /\ LET first == load_config(session.file)
           second == load_config(first.file)
       IN session' = [session EXCEPT !.pc = "loop", !.file = second.file,
                                     !.config = second.config, !.temp_dir = "exists"]
    /\ UNCHANGED <<program, uiVars, download_queue, unfinished_tasks, abortVars, events,
                   workerVars, put_log, pure>>

\* a handler other than Exit's runs and the loop goes on
HandlerReturns ==
    /\ session.pc = "loop"
    /\ log_pane' = "main"
    /\ UNCHANGED <<program, window, queue_list, listbox, progress_bar, formVars, next_id,
                   download_queue, unfinished_tasks, abortVars, events, workerVars,
                   put_log, pure, session>>

\* a handler, or window.read(), raises: the except clause of main (lines 483-485)
HandlerRaises ==
    /\ session.pc = "loop"
    /\ session' = [session EXCEPT !.pc = "cleanup", !.way_out = "exception"]
    /\ UNCHANGED <<program, uiVars, download_queue, unfinished_tasks, abortVars, events,
                   workerVars, put_log, pure>>

\* event == sg.WINDOW_CLOSED or event == "Exit" (lines 393-395): the stop
\* signal and the break
ExitEvent(event) ==
    /\ session.pc = "loop"
    /\ download_queue' = Append(download_queue, None)
    /\ unfinished_tasks' = unfinished_tasks + 1
    /\ session' = [session EXCEPT !.pc = "cleanup", !.way_out = event]
    /\ UNCHANGED <<program, uiVars, abortVars, events, workerVars, put_log, pure>>

\* a cleanup that removes the directory whatever keep_temp_files says
Cleanup_IgnoresKeep(rmtree_ok) ==
    /\ session.pc = "cleanup"
    /\ session' = [session EXCEPT !.pc = "close", !.cleanups = @ + 1,
                                  !.rmtree = IF rmtree_ok THEN "ok" ELSE "raised",
                                  !.temp_dir = IF rmtree_ok THEN "removed" ELSE @]
    /\ UNCHANGED <<program, uiVars, download_queue, unfinished_tasks, abortVars, events,
                   workerVars, put_log, pure>>

\* finally: download_manager.cleanup() (lines 80-81, 67-72); shutil.rmtree
\* removes the directory or raises, and what it raises is logged
Cleanup(rmtree_ok) ==
    /\ session.pc = "cleanup"
    /\ session' =
           IF ~KeepFiles(session.config) /\ session.temp_dir = "exists"
           THEN [session EXCEPT !.pc = "close", !.cleanups = @ + 1,
                                !.rmtree = IF rmtree_ok THEN "ok" ELSE "raised",
                                !.temp_dir = IF rmtree_ok THEN "removed" ELSE @]
           ELSE [session EXCEPT !.pc = "close", !.cleanups = @ + 1]
    /\ UNCHANGED <<program, uiVars, download_queue, unfinished_tasks, abortVars, events,
                   workerVars, put_log, pure>>

\* finally: window.close() (line 488), and main's return
Close ==
    /\ session.pc = "close"
    /\ window' = "closed"
    /\ queue_list' = <<>>
    /\ listbox' = <<>>
    /\ progress_bar' = Rat(0, 1)
    /\ log_pane' = ""
    /\ events' = <<>>
    /\ session' = [session EXCEPT !.pc = "done"]
    /\ UNCHANGED <<program, formVars, next_id, download_queue, unfinished_tasks,
                   abortVars, workerVars, put_log, pure>>

----------------------------------------------------------------------------
(* The program. *)

Init ==
    /\ program \in {"video_download", "youtube"}
    /\ window = "open"
    /\ queue_list = <<>>
    /\ listbox = <<>>
    /\ progress_bar = Rat(0, 1)
    /\ log_pane = ""
    /\ audio = FALSE
    /\ transcribe = FALSE
    /\ transcribe_disabled = TRUE
    /\ subtitles = FALSE
    /\ next_id = 1
    /\ download_queue = <<>>
    /\ unfinished_tasks = 0
    /\ abort_event = FALSE
    /\ abort_scope = 0
    /\ events = <<>>
    /\ pc = "get"
    /\ item = None
    /\ task = NoTask
    /\ put_log = <<>>
    /\ get_log = <<>>
    /\ trace = NoTrace
    /\ pure = NoCall
    /\ session = NoSession

Ui ==
    \/ Exit
    \/ \E url \in Urls, filename \in Filenames : AddQueue(url, filename)
    \/ \E files \in FileLists : AddLocal(files)
    \/ ClearQueue
    \/ \E url \in Urls, filename \in Filenames : StartDownloads(url, filename)
    \/ Abort
    \/ ProgressEvent
    \/ MessageEvent
    \/ DownloadCompleteEvent
    \/ AudioEvent
    \/ TranscribeClick
    \/ SubtitlesClick

Worker ==
    \/ WorkerGet
    \/ \E ok \in BOOLEAN : DvBegin(ok)
    \/ \E ok \in BOOLEAN : DvLoadModel(ok)
    \/ \E d \in ProgramHookRecords : DvProgressHook(d)
    \/ DvExtractInfoReturns
    \/ DvExtractInfoRaises
    \/ \E ok \in BOOLEAN : DvTranscribe(ok)
    \/ LtBegin
    \/ \E ok \in BOOLEAN : LtConvert(ok)
    \/ \E ok \in BOOLEAN : LtLoadModel(ok)
    \/ \E ok \in BOOLEAN : LtTranscribe(ok)
    \/ \E ok \in BOOLEAN : YtBegin(ok)
    \/ \E outcome \in Outcomes : YtExtractInfo(outcome)
    \/ \E d \in ProgramHookRecords : YtProgressHook(d)
    \/ \E outcome \in Outcomes : YtDownload(outcome)
    \/ \E ok \in BOOLEAN : YtRetry(ok)

Next == Ui \/ Worker

Spec == Init /\ [][Next]_vars

\* the steps by which the worker goes on: all of its steps but the calls of
\* the progress hook
WorkerGoesOn ==
    \/ WorkerGet
    \/ \E makedirs_ok \in BOOLEAN : DvBegin(makedirs_ok)
    \/ \E ok \in BOOLEAN : DvLoadModel(ok)
    \/ DvExtractInfoReturns
    \/ DvExtractInfoRaises
    \/ \E ok \in BOOLEAN : DvTranscribe(ok)
    \/ LtBegin
    \/ \E converted \in BOOLEAN : LtConvert(converted)
    \/ \E ok \in BOOLEAN : LtLoadModel(ok)
    \/ \E ok \in BOOLEAN : LtTranscribe(ok)
    \/ \E makedirs_ok \in BOOLEAN : YtBegin(makedirs_ok)
    \/ \E outcome \in Outcomes : YtExtractInfo(outcome)
    \/ \E outcome \in Outcomes : YtDownload(outcome)
    \/ \E ok \in BOOLEAN : YtRetry(ok)

\* the program with a worker thread that is scheduled again and again and
\* library calls that end (they return or raise)
SpecFair == Init /\ [][Next]_vars /\ WF_vars(WorkerGoesOn)

\* the pure functions on their own
InitPure ==
    /\ program = "video_download"
    /\ window = "open"
    /\ queue_list = <<>>
    /\ listbox = <<>>
    /\ progress_bar = Rat(0, 1)
    /\ log_pane = ""
    /\ audio = FALSE
    /\ transcribe = FALSE
    /\ transcribe_disabled = TRUE
    /\ subtitles = FALSE
    /\ next_id = 1
    /\ download_queue = <<>>
    /\ unfinished_tasks = 0
    /\ abort_event = FALSE
    /\ abort_scope = 0
    /\ events = <<>>
    /\ pc = "get"
    /\ item = None
    /\ task = NoTask
    /\ put_log = <<>>
    /\ get_log = <<>>
    /\ trace = NoTrace
    /\ pure \in PureCalls
    /\ session = NoSession

NextPure == CallSanitizeFilename \/ CallProgressHook \/ CallLoadConfig

SpecPure == InitPure /\ [][NextPure]_vars

\* main from its start to its return
InitExit ==
    /\ program = "video_download"
    /\ window = "open"
    /\ queue_list = <<>>
    /\ listbox = <<>>
    /\ progress_bar = Rat(0, 1)
    /\ log_pane = ""
    /\ audio = FALSE
    /\ transcribe = FALSE
    /\ transcribe_disabled = TRUE
    /\ subtitles = FALSE
    /\ next_id = 1
    /\ download_queue = <<>>
    /\ unfinished_tasks = 0
    /\ abort_event = FALSE
    /\ abort_scope = 0
    /\ events = <<>>
    /\ pc = "get"
    /\ item = None
    /\ task = NoTask
    /\ put_log = <<>>
    /\ get_log = <<>>
    /\ trace = NoTrace
    /\ pure = NoCall
    /\ session \in {Session(f) : f \in ConfigFiles}

NextExit ==
    \/ Startup
    \/ HandlerReturns
    \/ HandlerRaises
    \/ \E event \in {"Exit", "WINDOW_CLOSED"} : ExitEvent(event)
    \/ \E rmtree_ok \in BOOLEAN : Cleanup(rmtree_ok)
    \/ Close

SpecExit == InitExit /\ [][NextExit]_vars

----------------------------------------------------------------------------
(* Properties of the worker and the work queue. *)

\* the items waiting in a work queue: all but the sentinel None
Waiting(queue) == SelectSeq(queue, LAMBDA x : ~IsNone(x))

\* the ids of a sequence of items
Ids(items) == [i \in 1..Len(items) |-> items[i].id]

\* a task runs on the fields of the item the worker holds
ArgsAreItemFields == \A f \in DOMAIN task.args : f \in DOMAIN item /\ task.args[f] = item[f]

\* the items put are, in order, the items taken and then the items waiting,
\* and no item occurs twice
PutIsTakenThenWaiting ==
    /\ put_log = get_log \o Ids(Waiting(download_queue))
    /\ Cardinality({put_log[i] : i \in 1..Len(put_log)}) = Len(put_log)

\* C1: every item the UI puts on the work queue is taken by the worker exactly
\* once, in the order of the puts, and the task runs on the item's fields as
\* they were put: every step that changes the puts, the takes or the queue
\* leaves the puts equal to the takes followed by the waiting items, a take
\* hands out the head of the queue as it is, no other step changes a waiting
\* item, and whenever the item held or the task's locals change, the running
\* task's arguments are the fields of the item taken.
C1_TakenOnceInOrder ==
    [][/\ UNCHANGED <<put_log, get_log, download_queue>> \/ PutIsTakenThenWaiting'
       /\ (Running' = 1 /\ <<item, task>>' # <<item, task>>) => ArgsAreItemFields'
       /\ IF get_log' # get_log
          THEN /\ item' = Head(download_queue)
               /\ download_queue' = Tail(download_queue)
               /\ get_log' = Append(get_log, item'.id)
          ELSE \/ download_queue' = download_queue
               \/ LET before == Waiting(download_queue)
                      after == Waiting(download_queue')
                  IN \E n \in 0..Len(after) : before = SubSeq(after, 1, n)]_vars

\* two items were put and the second one is being processed
C1_Witness == Len(get_log) = 2 /\ Running = 1 /\ put_log = get_log

\* C2: every failure of an external call is caught inside the task, so the
\* worker is never ended by an exception and goes on to the next item (stated
\* for the sessions whose window is still open).
C2_WorkerSurvivesFailures == window = "open" => pc # "crashed"

\* C3: once Abort has been pressed the worker starts no item that waits in
\* the work queue.
C3_NoItemStartedAfterAbort == [][(abort_event /\ abort_scope > 0) => get_log' = get_log]_vars

\* the transcription calls made and the transcripts written by the task of history tr
Transcriptions(tr) ==
    Cardinality({i \in 1..Len(tr.calls) : tr.calls[i].fn \in {"transcribe", "write"}})

\* C4: for a task running or waiting when Abort was pressed, no transcription
\* call is made and no transcript is written once the flag is set (stated for
\* the sessions whose window is still open).
C4_NoTranscriptionAfterAbort ==
    [][(window = "open" /\ abort_event /\ abort_scope > 0 /\ Running = 1)
          => Transcriptions(trace') <= Transcriptions(trace)]_vars

\* the DownloadError the task's history holds mentions subtitles
RaisedSubtitleError ==
    \E i \in 1..Len(trace.calls) :
        /\ trace.calls[i].fn = "DownloadError"
        /\ \E j \in 1..Len(trace.calls[i].text) : trace.calls[i].text[j] = "subtitle"

\* C5: in youtube.py a DownloadError that mentions subtitles is followed by
\* exactly one retry, made with the options of the first attempt less
\* writesubtitles, subtitleslangs and subtitlesformat; no item's download is
\* attempted more than twice, and no other failure is retried.
C5_RetryOnceWithoutSubtitleOptions ==
    program = "youtube" =>
        /\ Calls("download") <= 1
        /\ Calls("retry download") <= 1
        /\ Calls("retry download") = 1 <=> RaisedSubtitleError
        /\ pc = "yt_retry" =>
               LET first == YtOptions(task.args)
                   kept == DOMAIN first \ {"writesubtitles", "subtitleslangs", "subtitlesformat"}
               IN /\ Calls("retry download") = 1
                  /\ DOMAIN task.ydl_opts = kept
                  /\ \A k \in kept : task.ydl_opts[k] = first[k]

\* the retry of a download that asked for subtitles and failed on them
C5_Witness ==
    /\ pc = "yt_retry"
    /\ Calls("download") = 1
    /\ "writesubtitles" \in DOMAIN YtOptions(task.args)

\* a task has returned (or ended the worker) and no other was started since
TaskEnded == pc \in {"get", "crashed"} /\ get_log # <<>>

\* C6 as stated: every task, remote download or local-file transcription,
\* posts exactly one -DOWNLOAD-COMPLETE-, as its last event, before it ends
\* (stated for the sessions whose window is still open).
C6_OneCompletionPerItem ==
    window = "open" =>
        /\ Running = 1 => trace.completes = 0
        /\ TaskEnded => trace.completes = 1 /\ trace.last = "-DOWNLOAD-COMPLETE-"

\* C6: every remote download task posts exactly one -DOWNLOAD-COMPLETE-, as
\* its last event, before it ends, on every path; a local-file transcription
\* task posts none, and its last event is a -PROGRESS-.
C6_OneCompletionPerDownload ==
    /\ Running = 1 => trace.completes = 0
    /\ TaskEnded =>
           IF "local_file" \in DOMAIN item
           THEN trace.completes = 0 /\ trace.last = "-PROGRESS-"
           ELSE trace.completes = 1 /\ trace.last = "-DOWNLOAD-COMPLETE-"

\* a download that failed has ended
C6_Witness ==
    /\ program = "video_download"
    /\ TaskEnded
    /\ "url" \in DOMAIN item
    /\ trace.texts = {}
    /\ trace.completes = 1

\* C7: the -CLEAR-QUEUE- handler leaves queue_list and the listbox empty.
C7_ClearQueueEmptiesBoth == [][ClearQueue => queue_list' = <<>> /\ listbox' = <<>>]_vars

\* an item was added and then cleared: none was put, none is pending
C7_Witness ==
    /\ window = "open"
    /\ next_id > 1
    /\ put_log = <<>>
    /\ queue_list = <<>>
    /\ listbox = <<>>

----------------------------------------------------------------------------
(* Properties of the pure functions. *)

\* progress_hook was called on the record pure.arg and returned pure.ret
HookCalled == pure.fn = "progress_hook" /\ pure.calls = 1

\* a byte counter of the record that is present and not zero
NonZero(n) == n # NoBytes /\ n # 0

\* C8: progress_hook posts exactly one -PROGRESS- of 100 for a record of
\* status 'finished'; for status 'downloading' it posts one -PROGRESS- when a
\* non-zero total (total_bytes or total_bytes_estimate) is known and nothing
\* otherwise; for any other status it posts nothing.
C8_ProgressHookPosts ==
    HookCalled =>
        LET d == pure.arg
            posted == pure.ret
        IN /\ Len(posted) <= 1
           /\ \A i \in 1..Len(posted) : posted[i].key = "-PROGRESS-"
           /\ d.status = "finished" => posted = <<Progress(Rat(100, 1))>>
           /\ d.status = "downloading" =>
                  (posted # <<>> <=>
                       NonZero(d.total_bytes) \/ NonZero(d.total_bytes_estimate))
           /\ d.status \notin {"finished", "downloading"} => posted = <<>>

\* a downloading record whose total is zero and whose estimate is missing
C8_Witness ==
    /\ HookCalled
    /\ pure.arg.status = "downloading"
    /\ pure.arg.total_bytes = 0
    /\ pure.arg.total_bytes_estimate = NoBytes
    /\ pure.ret = <<>>

\* sanitize_filename was called on the name pure.arg and returned pure.ret
SanitizeCalled == pure.fn = "sanitize_filename" /\ pure.calls = 1

\* the characters the specification lists: \ / * ? : " < > |
Forbidden == {"\\", "/", "*", "?", ":", "\"", "<", ">", "|"}

\* C9: sanitize_filename removes every occurrence of \ / * ? : " < > | and
\* keeps every other character in its order, so its result holds none of them
\* and sanitizing the result again changes nothing.
C9_SanitizeRemovesForbidden ==
    SanitizeCalled =>
        /\ pure.ret = SelectSeq(pure.arg, LAMBDA c : c \notin Forbidden)
        /\ \A i \in 1..Len(pure.ret) : pure.ret[i] \notin Forbidden
        /\ sanitize_filename(pure.ret) = pure.ret

\* a name of a kept character between two removed ones
C9_Witness ==
    /\ SanitizeCalled
    /\ pure.arg = <<"\\", "a", "|">>
    /\ pure.ret = <<"a">>

\* load_config was called at least once, on the config.json pure.arg
ConfigLoaded == pure.fn = "load_config" /\ pure.calls >= 1

\* the value the loaded config must hold for key k if every key falls back on
\* its default: the persisted value, or the default when the file or the key
\* is missing
PersistedOrDefault(k) ==
    IF pure.arg.exists /\ k \in DOMAIN pure.arg.text
    THEN JsonLoadValue(pure.arg.text[k])
    ELSE DEFAULT_CONFIG[k]

\* C10 as stated: after load_config every key of the defaults is in the
\* loaded config, with its persisted value or, when the file or the key is
\* missing, with its default.
C10_DefaultsPerKey ==
    ConfigLoaded =>
        \A k \in DOMAIN DEFAULT_CONFIG :
            k \in DOMAIN pure.ret[1] /\ pure.ret[1][k] = PersistedOrDefault(k)

\* C10: when config.json is missing load_config returns the five defaults and
\* writes them to the file; when the file exists load_config returns exactly
\* the keys and values the file holds, adds no default for a missing key and
\* leaves the file as it is; in both cases the next load returns the same.
C10_DefaultsWhenFileMissing ==
    ConfigLoaded =>
        /\ IF pure.arg.exists
           THEN /\ DOMAIN pure.ret[1] = DOMAIN pure.arg.text
                /\ \A k \in DOMAIN pure.ret[1] :
                       JsonDumpValue(pure.ret[1][k]) = pure.arg.text[k]
                /\ pure.file = pure.arg
           ELSE /\ pure.ret[1] = DEFAULT_CONFIG
                /\ pure.file.exists
                /\ DOMAIN pure.file.text = DOMAIN DEFAULT_CONFIG
                /\ \A k \in DOMAIN DEFAULT_CONFIG :
                       JsonLoadValue(pure.file.text[k]) = DEFAULT_CONFIG[k]
        /\ pure.calls = 2 => pure.ret[2] = pure.ret[1]

\* the file was missing, and the second load read the defaults the first wrote
C10_Witness ==
    /\ ConfigLoaded
    /\ ~pure.arg.exists
    /\ pure.calls = 2
    /\ pure.ret[2] = DEFAULT_CONFIG

----------------------------------------------------------------------------
(* Properties of the threads. *)

\* the calls of download_queue.task_done() so far: one per task that returned
TasksDone == Len(put_log) + (IF window = "closed" THEN 1 ELSE 0) - unfinished_tasks

\* C11: the worker drains the queue sequentially: the tasks started are at
\* most one more than the tasks that returned, a task is in progress exactly
\* when they differ, and the worker takes an item only when every task it
\* started has returned.
C11_OneTaskAtATime ==
    [][/\ Len(get_log') - TasksDone' \in {0, 1}
       /\ Running' = 1 => Len(get_log') - TasksDone' = 1
       /\ get_log' # get_log => Running = 0 /\ Len(get_log) = TasksDone]_vars

\* two items were put; the first task returned and the second one runs
C11_Witness ==
    /\ Len(get_log) = 2
    /\ Running = 1
    /\ TasksDone = 1
    /\ abort_event = FALSE

\* the pending list and the widgets
widgets == <<queue_list, listbox, progress_bar, log_pane, formVars>>

\* C12 as stated: the worker never changes the pending list or a widget, and
\* the UI thread changes the progress bar and the log pane only when it reads
\* an event the worker posted.
C12_WidgetsChangeOnWorkerEventsOnly ==
    [][/\ Worker => UNCHANGED <<window, widgets>>
       /\ (window' = "open" /\ <<progress_bar, log_pane>>' # <<progress_bar, log_pane>>)
              => ProgressEvent \/ MessageEvent \/ DownloadCompleteEvent]_vars

\* a step of the worker thread: it changes a local of the worker or posts an
\* event
WorkerActs == workerVars' # workerVars \/ Len(events') > Len(events)

\* C12: the worker never changes the pending list or a widget: no step of
\* the worker thread changes one of them, or the window; the UI thread
\* changes the progress bar only when it reads a -PROGRESS- or a
\* -DOWNLOAD-COMPLETE- event, and prints a worker's message to the log pane
\* only when it reads a -MESSAGE- event; a line that is not a worker's
\* message is one a handler of the UI thread prints itself.
C12_WorkerReachesWidgetsByEvents ==
    [][/\ WorkerActs => UNCHANGED <<window, widgets>>
       /\ (window' = "open" /\ progress_bar' # progress_bar)
              => ProgressEvent \/ DownloadCompleteEvent
       /\ (window' = "open" /\ log_pane' # log_pane)
              => IF log_pane' = "-MESSAGE-" THEN MessageEvent
                 ELSE log_pane' = "main" /\ ~WorkerActs]_vars

\* a task is running, and what it posted has reached the bar and the log pane
C12_Witness ==
    /\ Running = 1
    /\ log_pane = "-MESSAGE-"
    /\ progress_bar = Rat(100, 1)

----------------------------------------------------------------------------
(* Properties of Abort. *)

\* where the worker is while a download call of the library is in progress
DownloadPcs == {"dv_extract_info", "yt_download", "yt_retry"}

\* the step in which a download call returns (it does not raise)
DownloadReturns ==
    \/ DvExtractInfoReturns
    \/ YtDownload([type |-> "ok", text |-> <<>>])
    \/ YtRetry(TRUE)

\* the events a step appends to the channel
Posted == SubSeq(events', Len(events) + 1, Len(events'))

\* C13: Abort is coarse. Pressing Abort while a download call is in progress
\* changes nothing of the task: it stays in the call and has posted no
\* 'Download aborted.'. When the call returns with the flag set, the task
\* posts 'Download aborted.' and returns, and posts neither 'Download
\* complete!' nor the final -PROGRESS- 100.
C13_AbortSeenWhenDownloadReturns ==
    [][/\ (Abort /\ pc \in DownloadPcs) => UNCHANGED <<pc, task, trace, events>>
       /\ pc' \in DownloadPcs => "Download aborted." \notin trace'.texts
       /\ (abort_event /\ DownloadReturns) =>
              /\ pc' = "get"
              /\ trace'.texts = {"Download aborted."}
              /\ window = "open" =>
                     /\ \E i \in 1..Len(Posted) : Posted[i].text = "Download aborted."
                     /\ \A i \in 1..Len(Posted) : Posted[i].key # "-PROGRESS-"]_vars

\* the flag is set, a download call returned in a window still open, and its
\* task ended with 'Download aborted.' and the completion event
C13_Witness ==
    /\ window = "open"
    /\ abort_event
    /\ TaskEnded
    /\ trace.texts = {"Download aborted."}
    /\ trace.last = "-DOWNLOAD-COMPLETE-"

----------------------------------------------------------------------------
(* Properties of the way out of main. *)

\* main has returned
SessionDone == session.pc = "done"

\* keep_temp_files as config.json gave it to the session; a missing key is false
KeepTempFiles ==
    /\ "keep_temp_files" \in DOMAIN session.config
    /\ session.config["keep_temp_files"] = PyBool(TRUE)

\* C14 as stated: on every way out of the loop cleanup has run once and the
\* window is closed, and the temp directory is removed exactly when
\* keep_temp_files is false.
C14_TempDirRemovedUnlessKept ==
    SessionDone =>
        /\ session.cleanups = 1
        /\ window = "closed"
        /\ session.temp_dir = "removed" <=> ~KeepTempFiles

\* C14: on every way out of the loop cleanup has run once and the window is
\* closed; with keep_temp_files true the temp directory is left in place and
\* shutil.rmtree is not called; with keep_temp_files false (or missing)
\* shutil.rmtree is called, and the directory is removed unless rmtree raises,
\* in which case the error is logged and the directory stays.
C14_TempDirRemovedUnlessKeptOrFailed ==
    SessionDone =>
        /\ session.way_out \in {"Exit", "WINDOW_CLOSED", "exception"}
        /\ session.cleanups = 1
        /\ window = "closed"
        /\ IF KeepTempFiles
           THEN session.temp_dir = "exists" /\ session.rmtree = "not called"
           ELSE \/ session.rmtree = "ok" /\ session.temp_dir = "removed"
                \/ session.rmtree = "raised" /\ session.temp_dir = "exists"

\* a handler raised, config.json asks to keep the files, and main has returned
C14_Witness ==
    /\ SessionDone
    /\ session.way_out = "exception"
    /\ KeepTempFiles
    /\ session.temp_dir = "exists"

----------------------------------------------------------------------------
(* Properties of the pending list. *)

\* the items added and not cleared, in order: those put, then those pending
Kept == put_log \o Ids(queue_list)

\* the step of a Start Downloads event
StartDownloadsStep == \E url \in Urls, filename \in Filenames : StartDownloads(url, filename)

\* C15: a Start Downloads with a non-empty pending list appends the pending
\* items to the work queue in their order and empties the pending list and
\* the listbox; no step but Clear Queue drops an item that is pending or was
\* put, an item that appears is a new one, and no item occurs twice.
C15_PendingMovedInOrder ==
    [][window' = "open" =>
          /\ (queue_list # <<>> /\ StartDownloadsStep) =>
                 /\ download_queue' = download_queue \o queue_list
                 /\ queue_list' = <<>>
                 /\ listbox' = <<>>
                 /\ Kept' = Kept
          /\ <<put_log, queue_list>>' # <<put_log, queue_list>> =>
                 LET before == Kept
                     after == Kept'
                 IN /\ Cardinality({after[i] : i \in 1..Len(after)}) = Len(after)
                    /\ IF ClearQueue
                       THEN after = put_log /\ put_log' = put_log
                       ELSE /\ Len(before) <= Len(after)
                            /\ SubSeq(after, 1, Len(before)) = before
                            /\ \A i \in Len(before) + 1..Len(after) :
                                   after[i] >= next_id]_vars

\* a URL and a local file were pending, in this order, and Start Downloads
\* has put both
C15_Witness ==
    /\ window = "open"
    /\ queue_list = <<>>
    /\ Len(download_queue) = 2
    /\ "url" \in DOMAIN download_queue[1]
    /\ "local_file" \in DOMAIN download_queue[2]
    /\ Ids(download_queue) = <<1, 2>>

----------------------------------------------------------------------------
(* Properties of the end of the session. *)

\* the worker thread has ended: it left its loop on the stop signal, or an
\* exception ended it
Terminated == pc \in {"stopped", "crashed"}

\* the stop signal is the last item of the work queue, and the only one
SentinelLast ==
    /\ download_queue # <<>>
    /\ \A i \in 1..Len(download_queue) : IsNone(download_queue[i]) <=> i = Len(download_queue)

\* C16: once the window is closed the stop signal is on the work queue behind
\* every item put before, until the worker takes it; a worker that has left
\* its loop takes nothing any more; and with a worker that is scheduled and
\* library calls that end, the worker thread terminates after Exit.
C16_WorkerTerminatesAfterExit ==
    /\ []((window = "closed" /\ pc # "stopped") => SentinelLast)
    /\ [][Terminated => (pc' = pc /\ get_log' = get_log /\ item' = item)]_vars
    /\ (window = "closed") ~> Terminated

\* two items were put before Exit, and the worker took both and then the stop
\* signal
C16_Witness ==
    /\ window = "closed"
    /\ pc = "stopped"
    /\ Len(get_log) = 2
    /\ download_queue = <<>>

----------------------------------------------------------------------------
(* Properties of the abort flag. *)

\* the task in progress, or the one that ended last, is of an item that was
\* put on the work queue and taken from it after Abort was pressed
StartedAfterAbort == get_log # <<>> /\ trace.after_abort

\* C17: the abort flag is monotonic: no step clears it. So a task that was
\* added and started after Abort never posts 'Download complete!', and every
\* download call that returns while the flag is set, whenever its item was
\* added, ends its task at once with 'Download aborted.' and without
\* 'Download complete!'.
C17_AbortFlagStaysSet ==
    /\ [][abort_event => abort_event']_vars
    /\ [](StartedAfterAbort => (abort_event /\ "Download complete!" \notin trace.texts))
    /\ [][(abort_event /\ DownloadReturns) =>
              /\ pc' = "get"
              /\ "Download aborted." \in trace'.texts
              /\ "Download complete!" \notin trace'.texts]_vars

\* a remote item was added and started after Abort, its download call
\* returned, and its task ended with 'Download aborted.'
C17_Witness ==
    /\ StartedAfterAbort
    /\ pc = "get"
    /\ "url" \in DOMAIN item
    /\ Calls("download") = 1
    /\ trace.texts = {"Download aborted."}

----------------------------------------------------------------------------
(* Properties of the listbox. *)

\* the listbox entry at position i is the text of the pending item at i: its
\* URL, or 'Transcribe: ' and the file's name without its directory
ShowsItem(i) ==
    IF "url" \in DOMAIN queue_list[i]
    THEN /\ listbox[i].prefix = ""
         /\ listbox[i].url = queue_list[i].url
         /\ listbox[i].base = <<>>
         /\ listbox[i].ext = ""
    ELSE /\ listbox[i].prefix = "Transcribe: "
         /\ listbox[i].url = ""
         /\ listbox[i].base = queue_list[i].local_file.stem
         /\ listbox[i].ext = queue_list[i].local_file.ext

----------------------------------------------------------------------------
(* Properties of the progress values. *)

\* the byte counters of the record are as the download library may report
\* them: downloaded_bytes missing or >= 0, and a total or an estimate > 0
CountersInRange(d) ==
    /\ d.downloaded_bytes = NoBytes \/ d.downloaded_bytes >= 0
    /\ \/ d.total_bytes # NoBytes /\ d.total_bytes > 0
       \/ d.total_bytes_estimate # NoBytes /\ d.total_bytes_estimate > 0

\* C19: for all byte counters the download library may report, every value
\* progress_hook posts as a -PROGRESS- event lies between 0 and 100 inclusive.
C19_ProgressWithinRange ==
    (HookCalled /\ CountersInRange(pure.arg)) =>
        \A i \in 1..Len(pure.ret) :
            /\ RatLeq(Rat(0, 1), pure.ret[i].value)
            /\ RatLeq(pure.ret[i].value, Rat(100, 1))

----------------------------------------------------------------------------
(* Properties of the Transcribe checkbox. *)

\* an item that asks for a transcript is an audio-only item; a local file and
\* the stop signal hold no such key
TranscribeNeedsAudio(it) ==
    ("transcribe" \in DOMAIN it /\ it.transcribe) => it.audio_only

\* C20: the Transcribe checkbox is enabled only while Audio Only is ticked
\* and is ticked only while Audio Only is, so every remote item, pending, on
\* the work queue or taken by the worker, that has transcribe set has
\* audio_only set.
C20_TranscribeOnlyWithAudio ==
    /\ ~transcribe_disabled => audio
    /\ transcribe => audio
    /\ \A i \in 1..Len(queue_list) : TranscribeNeedsAudio(queue_list[i])
    /\ \A i \in 1..Len(download_queue) : TranscribeNeedsAudio(download_queue[i])
    /\ TranscribeNeedsAudio(item)

\* an item was made with both boxes ticked, then Audio Only was unticked: the
\* Transcribe box is unticked and disabled again, and the next item asks for
\* neither
C20_Witness ==
    /\ program = "video_download"
    /\ Len(download_queue) = 2
    /\ "url" \in DOMAIN download_queue[1]
    /\ "url" \in DOMAIN download_queue[2]
    /\ download_queue[1].transcribe /\ download_queue[1].audio_only
    /\ ~download_queue[2].transcribe /\ ~download_queue[2].audio_only
    /\ ~audio /\ ~transcribe /\ transcribe_disabled

----------------------------------------------------------------------------
(* Properties of Clear Queue outside the pending list. *)

\* a step that clears a pending list that was not empty, in a window that
\* stays open: the pending items are gone and none of them was put on the
\* work queue
ClearsPending ==
    /\ window' = "open"
    /\ queue_list # <<>>
    /\ queue_list' = <<>>
    /\ put_log' = put_log

\* C21: a Clear Queue leaves everything but the pending list and the listbox
\* as it is, besides the line it prints to the log pane: the items on the
\* work queue and their count, the item and the task in progress, the abort
\* flag, the events posted, the form and the progress bar. So the items put
\* before are still the ones taken followed by the ones waiting.
C21_ClearQueueLeavesWorkQueue ==
    [][ClearsPending =>
          /\ UNCHANGED <<download_queue, unfinished_tasks, abort_event, workerVars>>
          /\ UNCHANGED <<window, events, progress_bar, formVars, next_id>>
          /\ listbox' = <<>>
          /\ put_log' = get_log' \o Ids(Waiting(download_queue'))]_vars

\* the first item was put and is still waiting on the work queue, the abort
\* flag is set, and a second item was added and cleared: it is neither
\* pending nor put
C21_Witness ==
    /\ window = "open"
    /\ abort_event
    /\ put_log = <<1>>
    /\ get_log = <<>>
    /\ Ids(download_queue) = <<1>>
    /\ next_id = 3
    /\ queue_list = <<>>

====
